---- MODULE Spec2Model ----
(***************************************************************************)
(* Sidecar process supervisor of src-tauri/src/lib.rs.                     *)
(*                                                                         *)
(* Two execution contexts share AppState.backend_process, an               *)
(* Arc<Mutex<Option<Child>>>:                                              *)
(*   - the launch thread spawned by setup (lib.rs 124-152), which runs     *)
(*     start_backend_process, registers the child under the lock, sleeps   *)
(*     and shows the window;                                               *)
(*   - the main event context, which runs setup and then the               *)
(*     on_window_event handler (lib.rs 156-169) for each CloseRequested.   *)
(*                                                                         *)
(* Environment: the filesystem, the two directory resolvers, the outcome   *)
(* of spawn, of kill, of the window lookup, and the child's own exit.      *)
(* tokio::runtime::Runtime::new() is unwrapped by the code and is taken    *)
(* to succeed.                                                             *)
(***************************************************************************)
EXTENDS Integers, Sequences, FiniteSets, TLC

\* ------------------------------------------------------------------ bounds
\* Number of CloseRequested events the environment delivers in one run.
MaxClose == 2

\* ------------------------------------------------------- program constants
\* std::thread::sleep(Duration::from_millis(1500))
GraceDelayMs == 1500

Platforms == {"windows", "linux", "macos"}

\* Directories the two resolvers may answer with.
AppDir == "/app"
WorkDir == "/work"
NoDir == "ERR"

Pids == {7, 8}

None == [some |-> FALSE]
Some(h) == [some |-> TRUE, val |-> h]

\* ---------------------------------------------------------- pure functions
\* The #[cfg(target_os = ...)] selection of sidecar_name.
sidecar_name(plat) ==
    CASE plat = "windows" -> "nautilus-backend-x86_64-pc-windows-msvc.exe"
      [] plat = "linux"   -> "nautilus-backend-x86_64-unknown-linux-gnu"
      [] plat = "macos"   -> "nautilus-backend-x86_64-apple-darwin"

\* PathBuf::join: a path is the sequence of its components.
join(p, c) == Append(p, c)

\* Path::exists against the filesystem `files` (the set of existing paths).
exists(files, p) == p \in files

\* The three candidates, as the code builds them.
ResourceCandidate(dir, plat) == join(join(<<dir>>, "binaries"), sidecar_name(plat))
DevCandidate(dir, plat) == join(join(<<dir>>, "binaries"), sidecar_name(plat))
DevCandidate2(dir, plat) ==
    join(join(join(<<dir>>, "src-tauri"), "binaries"), sidecar_name(plat))

Ok(v) == [ok |-> TRUE, val |-> v]
Err(e) == [ok |-> FALSE, err |-> e]

NotFoundMsg(plat) == <<"Sidecar", sidecar_name(plat), "not found">>

\* get_sidecar_path with the resource-dir candidate never accepted.
get_sidecar_path_SkipResource(resDir, curDir, files, plat) ==
    IF curDir # NoDir /\ exists(files, DevCandidate(curDir, plat))
    THEN Ok(DevCandidate(curDir, plat))
    ELSE IF curDir # NoDir /\ exists(files, DevCandidate2(curDir, plat))
    THEN Ok(DevCandidate2(curDir, plat))
    ELSE Err(NotFoundMsg(plat))

\* get_sidecar_path returning the last candidate without an existence check.
get_sidecar_path_NoCheck(resDir, curDir, files, plat) ==
    IF resDir # NoDir /\ exists(files, ResourceCandidate(resDir, plat))
    THEN Ok(ResourceCandidate(resDir, plat))
    ELSE IF curDir # NoDir /\ exists(files, DevCandidate(curDir, plat))
    THEN Ok(DevCandidate(curDir, plat))
    ELSE IF curDir # NoDir
    THEN Ok(DevCandidate2(curDir, plat))
    ELSE Err(NotFoundMsg(plat))

\* get_sidecar_path (lib.rs 51-84).  resDir / curDir are the answers of
\* app.path().resource_dir() and std::env::current_dir(): a directory, or
\* NoDir when the resolver returned Err.
get_sidecar_path(resDir, curDir, files, plat) ==
    IF resDir # NoDir /\ exists(files, ResourceCandidate(resDir, plat))
    THEN Ok(ResourceCandidate(resDir, plat))
    ELSE IF curDir # NoDir /\ exists(files, DevCandidate(curDir, plat))
    THEN Ok(DevCandidate(curDir, plat))
    ELSE IF curDir # NoDir /\ exists(files, DevCandidate2(curDir, plat))
    THEN Ok(DevCandidate2(curDir, plat))
    ELSE Err(NotFoundMsg(plat))

\* Every path the environment's filesystem may hold.
AllPaths(plat) ==
    UNION { {ResourceCandidate(d, plat), DevCandidate2(d, plat)} : d \in {AppDir, WorkDir} }

\* ------------------------------------------------------------------- state
VARIABLES
    platform,         \* build target
    resource_dir,     \* answer of app.path().resource_dir()
    current_dir,      \* answer of std::env::current_dir()
    fs,               \* existing files
    backend_process,  \* AppState.backend_process: the slot, None or Some(child)
    lock,             \* holder of the tokio Mutex: "free", "launch", "close"
    lt,               \* position of the launch thread
    mainPc,           \* position of the main event context
    attempts,         \* calls of start_backend_process
    sidecar_path,     \* result of get_sidecar_path inside start_backend_process
    launched,         \* result of start_backend_process, once it returned
    registers,        \* writes of the slot by the launch thread: the value
                      \* each one overwrote
    spawnTried,       \* paths handed to Command::new(..).spawn(), in order
    spawns,           \* children created by Command::spawn, in order
    childAlive,       \* the set of pids of children still running
    kills,            \* child.kill() calls issued, in order
    logs,             \* log::info! / log::error! entries, in order
    shows,            \* window.show() calls of the launch thread, in order
    lookups,          \* answers of get_webview_window("main"), in order
    sleptMs,          \* time slept by the launch thread
    closes,           \* one record per CloseRequested handler run: what it
                      \* saw in the slot, and whether the launch thread was
                      \* in its grace delay
    closeCount,       \* CloseRequested events delivered
    afterReg          \* whether registration had completed when the
                      \* CloseRequested event being handled arrived

vars == <<platform, resource_dir, current_dir, fs, backend_process, lock, lt,
          mainPc, attempts, sidecar_path, launched, registers, spawnTried, spawns,
          childAlive, kills, logs, shows, lookups, sleptMs, closes, closeCount,
          afterReg>>

env == <<platform, resource_dir, current_dir, fs>>

NotLaunched == [ok |-> FALSE, err |-> <<"pending">>]

Init ==
    /\ platform \in Platforms
    /\ resource_dir \in {NoDir, AppDir}
    /\ current_dir \in {NoDir, AppDir, WorkDir}
    /\ fs \in SUBSET AllPaths(platform)
    /\ backend_process = None
    /\ lock = "free"
    /\ lt = "unstarted"
    /\ mainPc = "setup"
    /\ attempts = 0
    /\ sidecar_path = NotLaunched
    /\ launched = NotLaunched
    /\ registers = <<>>
    /\ spawnTried = <<>>
    /\ spawns = <<>>
    /\ childAlive = {}
    /\ kills = <<>>
    /\ logs = <<>>
    /\ shows = <<>>
    /\ lookups = <<>>
    /\ sleptMs = 0
    /\ closes = <<>>
    /\ closeCount = 0
    /\ afterReg = FALSE

Info(m) == [level |-> "info", msg |-> m]
Error(m) == [level |-> "error", msg |-> m]

\* Registration has completed: the launch thread wrote the slot and dropped
\* the guard (lib.rs 132-135 returned).
Registered == lt \in {"sleep", "show"} \/ (lt = "done" /\ launched.ok)

\* ------------------------------------------------------ main context: setup
\* Setup that calls get_sidecar_path itself before returning, instead of
\* leaving the whole launch to the spawned thread.
Setup_LocatesInline ==
    /\ mainPc = "setup"
    /\ mainPc' = "loop"
    /\ attempts' = attempts + 1
    /\ LET r == get_sidecar_path(resource_dir, current_dir, fs, platform)
       IN /\ sidecar_path' = r
          /\ lt' = IF r.ok THEN "spawn" ELSE "failed"
          /\ launched' = IF r.ok THEN launched ELSE r
    /\ UNCHANGED <<env, spawnTried, registers, backend_process, lock, spawns,
                   childAlive, kills, logs, shows, lookups, sleptMs, closes,
                   closeCount, afterReg>>

\* .setup(|app| ...) (lib.rs 110-155): clones the handle and the state,
\* spawns the launch thread and returns Ok(()) without joining it.
Setup ==
    /\ mainPc = "setup"
    /\ mainPc' = "loop"
    /\ lt' = "locate"
    /\ UNCHANGED <<env, spawnTried, attempts, sidecar_path, registers, backend_process, lock, launched, spawns, childAlive,
                   kills, logs, shows, lookups, sleptMs, closes, closeCount,
                   afterReg>>

\* ------------------------------------------------------------ launch thread
\* start_backend_process, first half (lib.rs 87): get_sidecar_path(app)?
\* A locator error is returned to the caller at once.
Locate ==
    /\ lt = "locate"
    /\ attempts' = attempts + 1
    /\ LET r == get_sidecar_path(resource_dir, current_dir, fs, platform)
       IN /\ sidecar_path' = r
          /\ IF r.ok
             THEN /\ lt' = "spawn"
                  /\ launched' = launched
                  /\ logs' = Append(logs, Info(<<"Starting backend sidecar", r.val>>))
             ELSE /\ lt' = "failed"
                  /\ launched' = r
                  /\ logs' = logs
    /\ UNCHANGED <<env, spawnTried, registers, backend_process, lock, mainPc, spawns, childAlive,
                   kills, shows, lookups, sleptMs, closes, closeCount, afterReg>>

\* Spawn whose failure is swallowed: nothing is returned to the caller.
Spawn_SwallowsError ==
    /\ lt = "spawn"
    /\ spawnTried' = Append(spawnTried, sidecar_path.val)
    /\ \/ \E pid \in Pids :
            /\ spawns' = Append(spawns, [pid |-> pid, path |-> sidecar_path.val])
            /\ childAlive' = childAlive \cup {pid}
            /\ launched' = Ok([pid |-> pid])
            /\ lt' = "started"
       \/ /\ launched' = launched
          /\ lt' = "failed"
          /\ UNCHANGED <<spawns, childAlive>>
    /\ UNCHANGED <<env, attempts, sidecar_path, registers, backend_process,
                   lock, mainPc, kills, logs, shows, lookups, sleptMs, closes,
                   closeCount, afterReg>>

\* start_backend_process, second half (lib.rs 91-100): Command::new(path)
\* ... .spawn().map_err(...).  The OS may reject the spawn although the path
\* existed when it was checked.
Spawn ==
    /\ lt = "spawn"
    /\ spawnTried' = Append(spawnTried, sidecar_path.val)
    /\ \/ \E pid \in Pids :
            /\ spawns' = Append(spawns, [pid |-> pid, path |-> sidecar_path.val])
            /\ childAlive' = childAlive \cup {pid}
            /\ launched' = Ok([pid |-> pid])
            /\ lt' = "started"
       \/ /\ launched' = Err(<<"Failed to start backend">>)
          /\ lt' = "failed"
          /\ UNCHANGED <<spawns, childAlive>>
    /\ UNCHANGED <<env, attempts, sidecar_path, registers, backend_process, lock, mainPc, kills, logs, shows,
                   lookups, sleptMs, closes, closeCount, afterReg>>

\* RegisterAcquire that goes on to write the slot without taking the lock.
RegisterAcquire_NoLock ==
    /\ lt = "started"
    /\ lt' = "crit"
    /\ logs' = Append(logs, Info(<<"Backend sidecar started with PID", launched.val.pid>>))
    /\ UNCHANGED <<env, spawnTried, attempts, sidecar_path, registers,
                   backend_process, lock, mainPc, launched, spawns, childAlive,
                   kills, shows, lookups, sleptMs, closes, closeCount, afterReg>>

\* Ok(child) arm, lib.rs 127-133: logs the pid, builds the runtime and
\* awaits backend_process.lock(); the lock is granted only when free.
RegisterAcquire ==
    /\ lt = "started"
    /\ lock = "free"
    /\ lock' = "launch"
    /\ lt' = "crit"
    /\ logs' = Append(logs, Info(<<"Backend sidecar started with PID", launched.val.pid>>))
    /\ UNCHANGED <<env, spawnTried, attempts, sidecar_path, registers, backend_process, mainPc, launched, spawns, childAlive,
                   kills, shows, lookups, sleptMs, closes, closeCount, afterReg>>

\* *backend = Some(child) (lib.rs 134): overwrites the slot, no check.
RegisterWrite ==
    /\ lt = "crit"
    /\ backend_process' = Some(launched.val)
    /\ registers' = Append(registers, backend_process)
    /\ lt' = "release"
    /\ UNCHANGED <<env, spawnTried, attempts, sidecar_path, lock, mainPc, launched, spawns, childAlive, kills,
                   logs, shows, lookups, sleptMs, closes, closeCount, afterReg>>

\* RegisterRelease that goes straight to the show, without the grace delay.
RegisterRelease_SkipsDelay ==
    /\ lt = "release"
    /\ lock' = "free"
    /\ lt' = "show"
    /\ UNCHANGED <<env, spawnTried, attempts, sidecar_path, registers,
                   backend_process, mainPc, launched, spawns, childAlive,
                   kills, logs, shows, lookups, sleptMs, closes, closeCount,
                   afterReg>>

\* RegisterRelease with the guard kept alive across the sleep.
RegisterRelease_KeepsLock ==
    /\ lt = "release"
    /\ lt' = "sleep"
    /\ UNCHANGED <<env, spawnTried, attempts, sidecar_path, registers,
                   backend_process, lock, mainPc, launched, spawns, childAlive,
                   kills, logs, shows, lookups, sleptMs, closes, closeCount,
                   afterReg>>

\* End of the async block (lib.rs 135): the guard is dropped; the thread
\* goes on to std::thread::sleep.
RegisterRelease ==
    /\ lt = "release"
    /\ lock' = "free"
    /\ lt' = "sleep"
    /\ UNCHANGED <<env, spawnTried, attempts, sidecar_path, registers, backend_process, mainPc, launched, spawns, childAlive,
                   kills, logs, shows, lookups, sleptMs, closes, closeCount,
                   afterReg>>

\* Wake with the window also shown before the delay has elapsed.
Wake_ShowsEarly ==
    /\ lt = "sleep"
    /\ sleptMs' = sleptMs + GraceDelayMs
    /\ shows' = Append(shows, "early")
    /\ lt' = "show"
    /\ UNCHANGED <<env, spawnTried, attempts, sidecar_path, registers, backend_process,
                   lock, mainPc, launched, spawns, childAlive, kills, logs,
                   lookups, closes, closeCount, afterReg>>

\* std::thread::sleep(1500 ms) returns (lib.rs 138).
Wake ==
    /\ lt = "sleep"
    /\ sleptMs' = sleptMs + GraceDelayMs
    /\ lt' = "show"
    /\ UNCHANGED <<env, spawnTried, attempts, sidecar_path, registers, backend_process, lock, mainPc, launched, spawns,
                   childAlive, kills, logs, shows, lookups, closes, closeCount,
                   afterReg>>

\* lib.rs 140-142: if let Some(window) = get_webview_window("main")
\* { let _ = window.show(); }.  The lookup's answer is the environment's:
\* None when no window labelled "main" exists at that moment (it was closed
\* meanwhile, or was never created); the code then skips the show silently.
ShowAfterDelay ==
    /\ lt = "show"
    /\ \E found \in BOOLEAN :
          /\ lookups' = Append(lookups, found)
          /\ shows' = IF found THEN Append(shows, "delayed") ELSE shows
    /\ lt' = "done"
    /\ UNCHANGED <<env, spawnTried, attempts, sidecar_path, registers, backend_process, lock, mainPc, launched, spawns,
                   childAlive, kills, logs, sleptMs, closes, closeCount, afterReg>>

\* ShowOnFailure that starts the launch over after a failure.
ShowOnFailure_Retry ==
    /\ lt = "failed"
    /\ logs' = Append(logs, Error(<<"Failed to start backend sidecar", launched.err>>))
    /\ lt' = "locate"
    /\ UNCHANGED <<env, spawnTried, attempts, sidecar_path, registers, backend_process,
                   lock, mainPc, launched, spawns, childAlive, kills, shows,
                   lookups, sleptMs, closes, closeCount, afterReg>>

\* ShowOnFailure with the window left hidden after a failed launch.
ShowOnFailure_NoShow ==
    /\ lt = "failed"
    /\ logs' = Append(logs, Error(<<"Failed to start backend sidecar", launched.err>>))
    /\ \E found \in BOOLEAN : lookups' = Append(lookups, found)
    /\ lt' = "done"
    /\ UNCHANGED <<env, spawnTried, attempts, sidecar_path, registers, backend_process,
                   lock, mainPc, launched, spawns, childAlive, kills, shows,
                   sleptMs, closes, closeCount, afterReg>>

\* Err(e) arm, lib.rs 144-149: logs the error and shows the window anyway,
\* under the same lookup guard.  Nothing is retried.
ShowOnFailure ==
    /\ lt = "failed"
    /\ logs' = Append(logs, Error(<<"Failed to start backend sidecar", launched.err>>))
    /\ \E found \in BOOLEAN :
          /\ lookups' = Append(lookups, found)
          /\ shows' = IF found THEN Append(shows, "immediate") ELSE shows
    /\ lt' = "done"
    /\ UNCHANGED <<env, spawnTried, attempts, sidecar_path, registers, backend_process, lock, mainPc, launched, spawns,
                   childAlive, kills, sleptMs, closes, closeCount, afterReg>>

LaunchThread ==
    \/ Locate
    \/ Spawn
    \/ RegisterAcquire
    \/ RegisterWrite
    \/ RegisterRelease
    \/ Wake
    \/ ShowAfterDelay
    \/ ShowOnFailure

\* ------------------------------------------- main context: on_window_event
\* A CloseRequested event is dispatched to the handler (lib.rs 157-162):
\* it builds a runtime and awaits backend_process.lock().
CloseRequested ==
    /\ mainPc = "loop"
    /\ closeCount < MaxClose
    /\ closeCount' = closeCount + 1
    /\ afterReg' = Registered
    /\ mainPc' = "lockwait"
    /\ UNCHANGED <<env, spawnTried, attempts, sidecar_path, registers, backend_process, lock, lt, launched, spawns,
                   childAlive, kills, logs, shows, lookups, sleptMs, closes>>

\* CloseAcquire that enters the critical section without the lock being free.
CloseAcquire_NoWait ==
    /\ mainPc = "lockwait"
    /\ lock' = "close"
    /\ mainPc' = "crit"
    /\ UNCHANGED <<env, spawnTried, attempts, sidecar_path, registers, backend_process, lt,
                   launched, spawns, childAlive, kills, logs, shows, lookups,
                   sleptMs, closes, closeCount, afterReg>>

\* backend_process.lock().await is granted (lib.rs 162).
CloseAcquire ==
    /\ mainPc = "lockwait"
    /\ lock = "free"
    /\ lock' = "close"
    /\ mainPc' = "crit"
    /\ UNCHANGED <<env, spawnTried, attempts, sidecar_path, registers, backend_process, lt, launched, spawns, childAlive,
                   kills, logs, shows, lookups, sleptMs, closes, closeCount,
                   afterReg>>

\* CloseBody that also cancels a window-show still pending in the launch
\* thread's grace delay.
CloseBody_CancelsShow ==
    /\ mainPc = "crit"
    /\ IF backend_process.some
       THEN \E res \in {"Ok", "Err"} :
               /\ kills' = Append(kills, [pid |-> backend_process.val.pid,
                                          result |-> res, by |-> closeCount])
               /\ logs' = Append(logs, Info(<<"Backend sidecar terminated">>))
       ELSE UNCHANGED <<kills, logs>>
    /\ closes' = Append(closes, [n |-> closeCount, afterReg |-> afterReg,
                                 seen |-> backend_process,
                                 inDelay |-> (lt = "sleep")])
    /\ lt' = IF lt = "sleep" THEN "done" ELSE lt
    /\ mainPc' = "unlock"
    /\ UNCHANGED <<env, spawnTried, attempts, sidecar_path, registers,
                   backend_process, lock, launched, spawns, childAlive, shows,
                   lookups, sleptMs, closeCount, afterReg>>

\* CloseBody that goes on only once the child has exited, as a handler
\* calling child.wait() after child.kill() would.
CloseBody_WaitsForExit ==
    /\ mainPc = "crit"
    /\ backend_process.some => backend_process.val.pid \notin childAlive
    /\ IF backend_process.some
       THEN \E res \in {"Ok", "Err"} :
               /\ kills' = Append(kills, [pid |-> backend_process.val.pid,
                                          result |-> res, by |-> closeCount])
               /\ logs' = Append(logs, Info(<<"Backend sidecar terminated">>))
       ELSE UNCHANGED <<kills, logs>>
    /\ closes' = Append(closes, [n |-> closeCount, afterReg |-> afterReg,
                                 seen |-> backend_process,
                                 inDelay |-> (lt = "sleep")])
    /\ mainPc' = "unlock"
    /\ UNCHANGED <<env, spawnTried, attempts, sidecar_path, registers, backend_process,
                   lock, lt, launched, spawns, childAlive, shows, lookups,
                   sleptMs, closeCount, afterReg>>

\* lib.rs 163-166: if let Some(ref mut child) = *backend
\* { let _ = child.kill(); log::info!("Backend sidecar terminated"); }
\* The slot is borrowed, not taken: it keeps its value.  The result of
\* kill() is discarded and the same info line is logged either way.
CloseBody ==
    /\ mainPc = "crit"
    /\ IF backend_process.some
       THEN \E res \in {"Ok", "Err"} :
               /\ kills' = Append(kills, [pid |-> backend_process.val.pid,
                                          result |-> res, by |-> closeCount])
               /\ logs' = Append(logs, Info(<<"Backend sidecar terminated">>))
       ELSE UNCHANGED <<kills, logs>>
    /\ closes' = Append(closes, [n |-> closeCount, afterReg |-> afterReg,
                                 seen |-> backend_process,
                                 inDelay |-> (lt = "sleep")])
    /\ mainPc' = "unlock"
    /\ UNCHANGED <<env, spawnTried, attempts, sidecar_path, registers, backend_process, lock, lt, launched, spawns,
                   childAlive, shows, lookups, sleptMs, closeCount, afterReg>>

\* CloseRelease that returns to the event loop with the guard leaked.
CloseRelease_KeepsLock ==
    /\ mainPc = "unlock"
    /\ mainPc' = "loop"
    /\ UNCHANGED <<env, spawnTried, attempts, sidecar_path, registers,
                   backend_process, lock, lt, launched, spawns, childAlive,
                   kills, logs, shows, lookups, sleptMs, closes, closeCount,
                   afterReg>>

\* End of the async block (lib.rs 167): the guard is dropped and the handler
\* returns to the event loop, without waiting for the child.
CloseRelease ==
    /\ mainPc = "unlock"
    /\ lock' = "free"
    /\ mainPc' = "loop"
    /\ UNCHANGED <<env, spawnTried, attempts, sidecar_path, registers, backend_process, lt, launched, spawns, childAlive,
                   kills, logs, shows, lookups, sleptMs, closes, closeCount,
                   afterReg>>

CloseHandler ==
    \/ CloseAcquire
    \/ CloseBody
    \/ CloseRelease

\* --------------------------------------------------------------- environment
\* The child exits, on its own or after a kill; it may also never exit.
ChildExit ==
    /\ \E pid \in childAlive : childAlive' = childAlive \ {pid}
    /\ UNCHANGED <<env, spawnTried, attempts, sidecar_path, registers, backend_process, lock, lt, mainPc, launched, spawns,
                   kills, logs, shows, lookups, sleptMs, closes, closeCount,
                   afterReg>>

Next ==
    \/ Setup
    \/ Locate
    \/ Spawn
    \/ RegisterAcquire
    \/ RegisterWrite
    \/ RegisterRelease
    \/ Wake
    \/ ShowAfterDelay
    \/ ShowOnFailure
    \/ CloseRequested
    \/ CloseAcquire
    \/ CloseBody
    \/ CloseRelease
    \/ ChildExit

Spec == Init /\ [][Next]_vars

\* The environments of one build target run from its working directory: the
\* resource directory resolves or not, and any of the files may exist, so
\* the locator succeeds in some and fails in others.  Progress on the lock
\* reads nothing else of the environment.
FairInit ==
    /\ Init
    /\ platform = "linux"
    /\ current_dir = WorkDir

\* The launch thread is an OS thread and the handler runs on the main event
\* context: each keeps running while it has a step to take.  No fairness is
\* assumed of the environment (events, the child's exit).
FairSpec ==
    /\ FairInit
    /\ [][Next]_vars
    /\ WF_vars(LaunchThread)
    /\ WF_vars(CloseHandler)

\* ===================================================================== claims
\* The handler run for the i-th CloseRequested event has returned.
HandlerDone(i) == i < closeCount \/ (i = closeCount /\ mainPc = "loop")

\* The kill() calls issued by the handler of the i-th CloseRequested event.
KillsBy(i) == { k \in 1..Len(kills) : kills[k].by = i }

\* C1: whenever the close-request handler runs while the slot holds a handle,
\* it issues a terminate signal to that process and the slot is None when the
\* handler has released the lock.
C1_CloseKillsAndClearsSlot ==
    \A i \in 1..Len(closes) :
        (closes[i].seen.some /\ HandlerDone(i)) =>
            /\ \E k \in KillsBy(i) : kills[k].pid = closes[i].seen.val.pid
            /\ backend_process = None

\* C2: of the close-request handlers run after a successful registration, only
\* the first issues a terminate signal; every later one finds the slot None
\* and issues no kill.
C2_SecondCloseIsNoOp ==
    \A i, j \in 1..Len(closes) :
        (i < j /\ closes[i].afterReg) =>
            /\ ~closes[j].seen.some
            /\ KillsBy(j) = {}

\* C3, as claimed: once the launch thread has run to its end, window.show()
\* has been invoked exactly once.
C3_ShowExactlyOnce ==
    lt = "done" => Len(shows) = 1

\* C3, amended: the launch thread looks the main window up exactly once per
\* run - after the full grace delay when locate and spawn succeeded, at once
\* when either failed - and invokes window.show() once if the lookup found
\* the window and not at all otherwise; show is never invoked twice, and
\* never before that lookup, whatever close-request events interleave.
C3_ShowOncePerFoundWindow ==
    /\ Len(shows) <= 1
    /\ Len(lookups) <= 1
    /\ lt # "done" => (shows = <<>> /\ lookups = <<>>)
    /\ lt = "done" =>
          /\ Len(lookups) = 1
          /\ shows = IF ~lookups[1] THEN <<>>
                     ELSE IF launched.ok THEN <<"delayed">> ELSE <<"immediate">>
          /\ sleptMs = IF launched.ok THEN GraceDelayMs ELSE 0

\* C3 witness: a successful launch whose delayed show was invoked, with a
\* close-request handled along the way.
C3_Witness ==
    /\ lt = "done"
    /\ launched.ok
    /\ shows = <<"delayed">>
    /\ Len(closes) >= 1

\* C4, as claimed: after a failed launch window.show() has been invoked, the
\* slot is None and no close-request handler saw a handle or issued a kill.
C4_FailureShowsAndStaysNone ==
    /\ (lt = "done" /\ ~launched.ok) => Len(shows) = 1
    /\ (lt \in {"failed", "done"} /\ ~launched.ok) =>
          /\ backend_process = None
          /\ kills = <<>>
          /\ \A i \in 1..Len(closes) : ~closes[i].seen.some

\* C4, amended: after a failed launch (locator error or spawn error) the
\* launch thread still looks the main window up and invokes window.show() if
\* the lookup found it; the slot is None in every later state, and every
\* close-request handler finds None and issues no kill.
C4_FailureShowsIfFoundAndStaysNone ==
    /\ (lt = "done" /\ ~launched.ok) =>
          /\ Len(lookups) = 1
          /\ shows = IF lookups[1] THEN <<"immediate">> ELSE <<>>
    /\ (lt \in {"failed", "done"} /\ ~launched.ok) =>
          /\ backend_process = None
          /\ kills = <<>>
          /\ \A i \in 1..Len(closes) : ~closes[i].seen.some

\* C4 witness: the spawn failed, the window was shown, and a close-request
\* that arrived after the failure has been handled.
C4_Witness ==
    /\ lt = "done"
    /\ sidecar_path.ok
    /\ ~launched.ok
    /\ shows = <<"immediate">>
    /\ mainPc = "loop"
    /\ Len(closes) >= 1
    /\ Len(logs) >= 2

\* C5: every close-request handler invocation eventually returns to the event
\* loop, whatever kill() answered and whether or not the child ever exits:
\* the handler waits for the store lock only.
C5_CloseCompletes ==
    (mainPc = "lockwait") ~> (mainPc = "loop")

\* C5 witness: a handler has returned although its kill() was rejected and
\* the child is still running.
C5_Witness ==
    /\ mainPc = "loop"
    /\ \E k \in 1..Len(kills) :
          /\ kills[k].result = "Err"
          /\ kills[k].pid \in childAlive
          /\ HandlerDone(kills[k].by)

\* The candidates the locator can form, by position: 1 resource-dir/binaries,
\* 2 cwd/binaries, 3 cwd/src-tauri/binaries.  A candidate whose directory
\* could not be resolved is not formed.
CandidateAt(i) ==
    CASE i = 1 -> <<resource_dir, "binaries", sidecar_name(platform)>>
      [] i = 2 -> <<current_dir, "binaries", sidecar_name(platform)>>
      [] i = 3 -> <<current_dir, "src-tauri", "binaries", sidecar_name(platform)>>

Formed(i) == IF i = 1 THEN resource_dir # NoDir ELSE current_dir # NoDir

\* Positions of the candidates that exist.
Existing == { i \in 1..3 : Formed(i) /\ CandidateAt(i) \in fs }

\* The launch thread has called get_sidecar_path.
Located == lt \notin {"unstarted", "locate"}

\* C6: for every combination of existence of the three candidates,
\* get_sidecar_path returns the first existing one in the order resource-dir,
\* cwd, cwd/src-tauri; when exactly one exists it returns that one.
C6_FirstExistingWins ==
    (Located /\ Existing # {}) =>
        \E i \in Existing :
            /\ \A j \in Existing : i <= j
            /\ sidecar_path = Ok(CandidateAt(i))

\* C6 witness: only the third candidate exists and the locator returned it.
C6_Witness ==
    /\ Located
    /\ resource_dir # NoDir
    /\ Existing = {3}
    /\ sidecar_path.ok
    /\ sidecar_path.val = <<current_dir, "src-tauri", "binaries", sidecar_name(platform)>>

\* C7: when no candidate exists, or the directories cannot be resolved,
\* get_sidecar_path fails with the not-found error carrying the executable
\* name; a path it returns always passed the existence check.
C7_NotFoundWhenNoneExists ==
    Located =>
        /\ Existing = {} => sidecar_path = Err(<<"Sidecar", sidecar_name(platform), "not found">>)
        /\ sidecar_path.ok => sidecar_path.val \in fs

\* C7 witness: files exist on disk, but none at a candidate the locator could
\* form, and the locator answered not-found.
C7_Witness ==
    /\ Located
    /\ fs # {}
    /\ current_dir # NoDir
    /\ Existing = {}
    /\ ~sidecar_path.ok
    /\ lt = "done"

C9_AtMostOneHandle ==
    /\ attempts <= 1
    /\ Len(spawns) <= 1
    /\ Cardinality(childAlive) <= 1
    /\ Len(registers) <= 1
    /\ \A r \in 1..Len(registers) : registers[r] = None
    /\ backend_process.some =>
          /\ Len(registers) = 1
          /\ spawns # <<>>
          /\ backend_process.val.pid = spawns[1].pid
    /\ lt \in {"failed", "done"} => attempts = 1

\* C9 witness: a child was spawned and registered over None, the launch
\* thread has finished, and close-requests were handled meanwhile.
C9_Witness ==
    /\ lt = "done"
    /\ attempts = 1
    /\ Len(spawns) = 1
    /\ registers = <<None>>
    /\ backend_process.some
    /\ Len(closes) >= 1

\* C10: when kill() is rejected, the failure is recorded as a log entry (and
\* the handler still returns).
C10_KillFailureIsLogged ==
    \A k \in 1..Len(kills) :
        (kills[k].result = "Err" /\ HandlerDone(kills[k].by)) =>
            \E j \in 1..Len(logs) :
                /\ logs[j].level # "info"
                /\ logs[j].msg # <<"Backend sidecar terminated">>

\* The launch is in progress: the thread runs, and has not yet finished
\* registering the child nor failed.
Launching == lt \in {"locate", "spawn", "started", "crit", "release"}

\* C11: on the happy path window.show() is invoked only after the handle was
\* registered and the full grace delay has elapsed; the supervisor never
\* shows the window while the launch is in progress or before the slot was
\* set to Some.
C11_ShowAfterRegistrationAndDelay ==
    /\ (Launching \/ lt \in {"unstarted", "sleep", "show"}) => shows = <<>>
    /\ \A i \in 1..Len(shows) :
          shows[i] = "delayed" =>
             /\ launched.ok
             /\ registers # <<>>
             /\ Registered
             /\ sleptMs = GraceDelayMs
    /\ (spawns # <<>> /\ shows # <<>>) => shows = <<"delayed">>

\* C11 witness: the child was registered over None, the delay elapsed, and
\* the window was shown.
C11_Witness ==
    /\ shows = <<"delayed">>
    /\ registers = <<None>>
    /\ sleptMs = GraceDelayMs
    /\ backend_process.some

\* C12: the store lock is never held across the grace delay, the spawn or a
\* wait on the child: the launch thread holds it only to write the slot and
\* the handler only to kill.  A close-request awaiting the lock during the
\* grace delay finds it free, and a handler that ran during the delay saw
\* the handle and killed the child before the delay elapsed.
C12_LockNotHeldAcrossDelay ==
    /\ lock = "launch" => lt \in {"crit", "release"}
    /\ lock = "close" => mainPc \in {"crit", "unlock"}
    /\ (lt = "sleep" /\ mainPc = "lockwait") => lock = "free"
    /\ \A i \in 1..Len(closes) :
          closes[i].inDelay =>
             /\ closes[i].seen.some
             /\ KillsBy(i) # {}
    /\ (lt = "sleep" /\ mainPc = "unlock") =>
          /\ sleptMs = 0
          /\ closes[closeCount].inDelay

\* C12 witness: the launch thread is still sleeping and a close-request that
\* arrived during the delay has been handled and has killed the child.
C12_Witness ==
    /\ lt = "sleep"
    /\ sleptMs = 0
    /\ mainPc = "loop"
    /\ \E i \in 1..Len(closes) :
          /\ closes[i].afterReg
          /\ closes[i].inDelay
          /\ KillsBy(i) # {}

\* C13: the launch is triggered exactly once, by setup, on the background
\* thread: setup returns as soon as the thread is spawned, before locate or
\* spawn have run, and no step of the main context ever runs them.
C13_LaunchOnceInBackground ==
    /\ [](/\ mainPc = "setup" <=> lt = "unstarted"
          /\ attempts <= 1
          /\ attempts = 0 <=> lt \in {"unstarted", "locate"})
    /\ [][(mainPc = "setup" /\ mainPc' # "setup") =>
             (lt' = "locate" /\ attempts' = 0 /\ spawnTried' = <<>>)]_vars
    /\ [][(attempts' # attempts \/ spawnTried' # spawnTried) =>
             mainPc' = mainPc]_vars

\* C13 witness: the main context has handled a close-request while the launch
\* thread is between locate and spawn.
C13_Witness ==
    /\ mainPc = "loop"
    /\ lt = "spawn"
    /\ Len(closes) >= 1
    /\ ~closes[1].seen.some

\* C14: start_backend_process attempts a spawn only with the path the locator
\* returned, which passed its existence check; when the locator fails no
\* spawn is attempted and the locator's error is the result; when the spawn
\* fails the spawn error is the result, and the caller logs it.
C14_SpawnOnlyLocatedPath ==
    /\ Len(spawnTried) <= 1
    /\ \A i \in 1..Len(spawnTried) :
          /\ sidecar_path.ok
          /\ spawnTried[i] = sidecar_path.val
          /\ spawnTried[i] \in fs
    /\ (Located /\ ~sidecar_path.ok) =>
          /\ spawnTried = <<>>
          /\ spawns = <<>>
          /\ launched = sidecar_path
    /\ (spawnTried # <<>> /\ spawns = <<>>) =>
          /\ launched = Err(<<"Failed to start backend">>)
          /\ lt \in {"failed", "done"}
    /\ (spawnTried # <<>> /\ spawns # <<>>) =>
          /\ Len(spawns) = 1
          /\ spawns[1].path = spawnTried[1]
          /\ launched = Ok([pid |-> spawns[1].pid])
    /\ (lt = "done" /\ ~launched.ok) =>
          logs[Len(logs)] = Error(<<"Failed to start backend sidecar", launched.err>>)

\* C14 witness: the locator returned a path, the spawn of it was rejected and
\* the spawn error has just been returned to the caller.
C14_Witness ==
    /\ lt = "failed"
    /\ Len(spawnTried) = 1
    /\ spawnTried[1] \in fs
    /\ launched = Err(<<"Failed to start backend">>)

\* C15: a terminate signal is only ever issued to the child this run spawned
\* and registered, by a handler that found it in the slot, and only after
\* its registration completed; none is issued while the slot is None or
\* before a spawn succeeded.
C15_KillOnlyRegisteredChild ==
    /\ \A k \in 1..Len(kills) :
          /\ spawns # <<>>
          /\ registers # <<>>
          /\ kills[k].pid = spawns[1].pid
          /\ closes[kills[k].by].seen = Some([pid |-> spawns[1].pid])
    /\ kills # <<>> => (Registered /\ backend_process.some)
    /\ (~backend_process.some \/ spawns = <<>>) => kills = <<>>

\* C15 witness: the spawned child was killed through the slot and has exited.
C15_Witness ==
    /\ spawns # <<>>
    /\ childAlive = {}
    /\ \E k \in 1..Len(kills) :
          /\ kills[k].pid = spawns[1].pid
          /\ kills[k].result = "Ok"

\* C16: the launch thread and the close handler never deadlock on the store
\* lock: the critical sections never overlap, every holder releases the
\* lock, and every request for it is eventually granted.
C16_LockDeadlockFree ==
    /\ [](~(lt \in {"crit", "release"} /\ mainPc \in {"crit", "unlock"}))
    /\ (lt = "started") ~> (lt = "crit")
    /\ (mainPc = "lockwait") ~> (mainPc = "crit")
    /\ (lock # "free") ~> (lock = "free")

\* C16 witness: the launch thread awaits the lock while a close handler
\* holds it.
C16_Witness ==
    /\ lt = "started"
    /\ lock = "close"
    /\ mainPc = "crit"

\* A close-request handler ran while the launch thread was in its grace delay.
ClosedInDelay == \E i \in 1..Len(closes) : closes[i].inDelay

\* C17, as claimed: when a close-request was handled during the grace delay,
\* the launch thread has nevertheless invoked window.show() by the time it
\* ends.
C17_ShowDespiteClose ==
    (lt = "done" /\ ClosedInDelay) => shows = <<"delayed">>

\* C17, amended: a close-request handled during the grace delay does not
\* cancel the pending show step: the launch thread stays in its delay, and
\* once the delay has elapsed it looks the main window up and invokes
\* window.show() if the lookup finds the window, whether or not the child has
\* been terminated in between.
C17_CloseDoesNotCancelShowStep ==
    /\ [](/\ ClosedInDelay => lt \in {"sleep", "show", "done"}
          /\ (lt = "show" /\ ClosedInDelay) =>
                (sleptMs = GraceDelayMs /\ lookups = <<>>)
          /\ (lt = "done" /\ ClosedInDelay) =>
                /\ sleptMs = GraceDelayMs
                /\ Len(lookups) = 1
                /\ shows = IF lookups[1] THEN <<"delayed">> ELSE <<>>)
    /\ (lt = "sleep") ~> (lt = "done" /\ Len(lookups) = 1)

\* C17 witness: the child was killed during the grace delay and has exited,
\* and the window was shown afterwards.
C17_Witness ==
    /\ lt = "done"
    /\ shows = <<"delayed">>
    /\ \E i \in 1..Len(closes) :
          /\ closes[i].inDelay
          /\ \E k \in KillsBy(i) : kills[k].pid \notin childAlive

====
